---- MODULE Spec2Model ----
(***************************************************************************)
(* A model of theoc/metrics.py: the signal-detection score (d'), the       *)
(* histogram entropy and mutual information, the nearest-neighbour         *)
(* entropy estimator and min-max normalisation.                            *)
(*                                                                         *)
(* Every function of the module is pure.  The state of the model is the    *)
(* last call made: the function called (fn), its arguments (args) and      *)
(* what the call produced (out): a value or the exception it raised.  A    *)
(* call is made from the idle state (fn = "none") and its result is held   *)
(* until the caller takes it (Return).                                     *)
(*                                                                         *)
(* Floating-point numbers are modelled by exact rationals n/d together     *)
(* with the IEEE special values the code can produce: not-a-number, the    *)
(* two infinities and the negative zero.  log10 is a table of thousandths  *)
(* that keeps log(a*b) = log(a) + log(b) on its domain.                    *)
(***************************************************************************)
EXTENDS Integers, Sequences, FiniteSets, TLC

VARIABLES fn, args, out, numpy

vars == <<fn, args, out, numpy>>

(***************************************************************************)
(* The build the module runs on.  Two lines of the module depend on the    *)
(* numpy release: np.float, line 97, and the truth value of an empty       *)
(* array, line 79.                                                         *)
(***************************************************************************)
\* the numpy release, by its first release of the same behaviour: up to 1.23,
\* 1.24 to 2.1, 2.2 and later
NumpyReleases == {"1.23", "1.24", "2.2"}

\* np.float is an alias of float up to numpy 1.23; from 1.24 the name is gone
HasNpFloat == numpy = "1.23"

\* bool() of an empty array is False up to numpy 2.1 and raises from 2.2
EmptyTruthRaises == numpy = "2.2"

(***************************************************************************)
(* Bounds of the model.                                                    *)
(***************************************************************************)
\* longest 1-D series handed to a one-argument function
MaxLen == 3
\* longest series of a two-series call
MaxPairLen == 2
\* largest number of histogram bins
MaxBins == 3
\* largest number of rows of a multivariate sample
MaxRows == 3
\* largest number of rows of a variable of a mutual-information call
MaxCmiRows == 2
\* largest number of variables of a mutual-information call
MaxVars == 3

(***************************************************************************)
(* Floating-point values.                                                  *)
(***************************************************************************)
RECURSIVE GCD(_, _)
GCD(a, b) == IF b = 0 THEN a ELSE GCD(b, a % b)

Abs(i) == IF i < 0 THEN -i ELSE i

NaN == [k |-> "nan", n |-> 0, d |-> 0]
PInf == [k |-> "inf", n |-> 1, d |-> 0]
NInf == [k |-> "inf", n |-> -1, d |-> 0]
PZero == [k |-> "fin", n |-> 0, d |-> 1]
NZero == [k |-> "nzero", n |-> 0, d |-> 1]

\* the float n/d, d # 0, in lowest terms with a positive denominator
\* n/d over the common divisor g, d > 0
Reduced(n, d, g) == [k |-> "fin", n |-> n \div g, d |-> d \div g]
Rat(n, d) ==
    IF d < 0 THEN Reduced(-n, -d, GCD(Abs(n), -d)) ELSE Reduced(n, d, GCD(Abs(n), d))

Num(i) == [k |-> "fin", n |-> i, d |-> 1]

IsNaN(a) == a.k = "nan"
IsInf(a) == a.k = "inf"
IsZero(a) == a.k = "nzero" \/ (a.k = "fin" /\ a.n = 0)
\* np.isfinite
IsFinite(a) == a.k \in {"fin", "nzero"}
\* the sign bit: -1 or 1
SignBit(a) == IF a.k = "nzero" \/ a.n < 0 THEN -1 ELSE 1
SignedZero(s) == IF s < 0 THEN NZero ELSE PZero
SignedInf(s) == IF s < 0 THEN NInf ELSE PInf

FNeg(a) ==
    CASE IsNaN(a) -> NaN
      [] IsInf(a) -> SignedInf(-a.n)
      [] IsZero(a) -> SignedZero(-SignBit(a))
      [] OTHER -> Rat(-a.n, a.d)

\* a + b of two fractions, over the common denominator l
SumOver(a, b, l) == Rat(a.n * (l \div a.d) + b.n * (l \div b.d), l)

FAdd(a, b) ==
    CASE IsNaN(a) \/ IsNaN(b) -> NaN
      [] IsInf(a) /\ IsInf(b) -> IF a.n = b.n THEN a ELSE NaN
      [] IsInf(a) -> a
      [] IsInf(b) -> b
      [] IsZero(a) /\ IsZero(b) ->
            IF SignBit(a) < 0 /\ SignBit(b) < 0 THEN NZero ELSE PZero
      [] IsZero(a) -> b
      [] IsZero(b) -> a
      [] OTHER -> SumOver(a, b, (a.d \div GCD(a.d, b.d)) * b.d)

FSub(a, b) == FAdd(a, FNeg(b))

FMul(a, b) ==
    CASE IsNaN(a) \/ IsNaN(b) -> NaN
      [] (IsInf(a) /\ IsZero(b)) \/ (IsZero(a) /\ IsInf(b)) -> NaN
      [] IsInf(a) \/ IsInf(b) -> SignedInf(SignBit(a) * SignBit(b))
      [] IsZero(a) \/ IsZero(b) -> SignedZero(SignBit(a) * SignBit(b))
      [] OTHER -> Rat(a.n * b.n, a.d * b.d)

\* numpy's true division of floats: a zero divisor gives inf or nan, never raises
FDiv(a, b) ==
    CASE IsNaN(a) \/ IsNaN(b) -> NaN
      [] IsInf(a) /\ IsInf(b) -> NaN
      [] IsZero(a) /\ IsZero(b) -> NaN
      [] IsInf(a) \/ IsZero(b) -> SignedInf(SignBit(a) * SignBit(b))
      [] IsZero(a) \/ IsInf(b) -> SignedZero(SignBit(a) * SignBit(b))
      [] OTHER -> Rat(a.n * b.d, a.d * b.n)

\* a < b on floats: false as soon as one side is not-a-number
FLt(a, b) ==
    CASE IsNaN(a) \/ IsNaN(b) -> FALSE
      [] IsInf(a) /\ IsInf(b) -> a.n < b.n
      [] IsInf(a) -> a.n < 0
      [] IsInf(b) -> b.n > 0
      [] OTHER -> a.n * b.d < b.n * a.d

\* a == b on floats: not-a-number equals nothing, the two zeros are equal
FEq(a, b) ==
    CASE IsNaN(a) \/ IsNaN(b) -> FALSE
      [] IsZero(a) /\ IsZero(b) -> TRUE
      [] OTHER -> a = b

FLe(a, b) == FLt(a, b) \/ FEq(a, b)

\* np.sign: 1, -1, or the literal 0 for either zero
FSign(a) ==
    CASE IsNaN(a) -> NaN
      [] IsZero(a) -> PZero
      [] OTHER -> Num(SignBit(a))

(***************************************************************************)
(* Results of a call: a value, or the exception raised.                    *)
(***************************************************************************)
Ok(v) == [raised |-> "none", value |-> v]
Raise(e) == [raised |-> e]
Returned(r) == r.raised = "none"

(***************************************************************************)
(* Arrays, arguments and results alike: the number of dimensions and the   *)
(* data, a sequence of elements (1-D) or a sequence of rows (2-D).         *)
(***************************************************************************)
Arr1(s) == [ndim |-> 1, data |-> s]
Arr2(rows) == [ndim |-> 2, data |-> rows]

\* the elements of s at the positions where mask is TRUE, in order
RECURSIVE Compress(_, _, _)
Compress(s, mask, i) ==
    IF i > Len(s) THEN <<>>
    ELSE (IF mask[i] THEN <<s[i]>> ELSE <<>>) \o Compress(s, mask, i + 1)

RECURSIVE FSumUpTo(_, _)
FSumUpTo(s, i) == IF i = 1 THEN s[1] ELSE FAdd(FSumUpTo(s, i - 1), s[i])

\* np.sum of a 1-D float array, left to right; +0.0 for an empty array
FSum(s) == IF Len(s) = 0 THEN PZero ELSE FSumUpTo(s, Len(s))

\* np.mean: nan for an empty array (0.0 / 0)
FMean(s) == FDiv(FSum(s), Num(Len(s)))

BoolToInt(b) == IF b THEN 1 ELSE 0

\* all sequences over S of length 0..n
SeqsUpTo(S, n) == UNION {[1..l -> S] : l \in 0..n}

(***************************************************************************)
(* SignalDiscriminator                                                     *)
(***************************************************************************)
\* np.diff of a 1-D array: x[i+1] - x[i]; empty when x has fewer than 2 elements
Diff(s) == [i \in 1..(IF Len(s) = 0 THEN 0 ELSE Len(s) - 1) |-> FSub(s[i + 1], s[i])]

\* np.sign, elementwise
Signs(dx) == [i \in 1..Len(dx) |-> FSign(dx[i])]

\* the mutant of C11: the differences are taken backwards, x[i] - x[i+1]
change_direction_backwards(x) ==
    IF x.ndim # 1 THEN Raise("ValueError")
    ELSE Ok(Arr1(Signs([i \in 1..Len(Diff(x.data)) |-> FNeg(Diff(x.data)[i])])))

change_direction(x) ==
    IF x.ndim # 1 THEN Raise("ValueError")
    ELSE Ok(Arr1(Signs(Diff(x.data))))

\* np.nonzero of a 1-D array: a 1-tuple holding the array of the (0-based)
\* positions of the entries that are not zero (not-a-number is not zero)
Nonzero(s) ==
    <<Compress([i \in 1..Len(s) |-> i - 1], [i \in 1..Len(s) |-> ~IsZero(s[i])], 1)>>

\* a[m] for the tuple m of one integer index array: the entries at those
\* positions, IndexError when a position is out of bounds
TakeIdx(s, m) ==
    IF \E i \in 1..Len(m[1]) : m[1][i] >= Len(s) THEN Raise("IndexError")
    ELSE Ok([i \in 1..Len(m[1]) |-> s[m[1][i] + 1]])

\* np.logical_not of the tuple np.nonzero returned: the tuple becomes an array
\* of shape (1, K), True exactly where the position held is 0
LogicalNotOfTuple(m) == Arr2([r \in 1..Len(m) |-> [i \in 1..Len(m[r]) |-> m[r][i] = 0]])

\* a[mask] for a boolean array mask: IndexError when mask has more dimensions
\* than a, or a different length
BoolIndex(a, mask) ==
    IF mask.ndim > a.ndim THEN Raise("IndexError")
    ELSE IF Len(mask.data) # Len(a.data) THEN Raise("IndexError")
    ELSE Ok(Compress(a.data, mask.data, 1))

\* elementwise ==
EqualElems(a, b) == [i \in 1..Len(a) |-> FEq(a[i], b[i])]

\* lines 37 and 44-52: the four arrays.  Lines 48 and 50 subtract and drop the
\* result: misses and correct_rejects stay boolean
Discriminations(hits, false_alarms) ==
    Ok([hits |-> Arr1([i \in 1..Len(hits) |-> BoolToInt(hits[i])]),
        misses |-> Arr1([i \in 1..Len(hits) |-> ~hits[i]]),
        false_alarms |->
            Arr1([i \in 1..Len(false_alarms) |-> BoolToInt(false_alarms[i])]),
        correct_rejects |-> Arr1([i \in 1..Len(false_alarms) |-> ~false_alarms[i]])])

\* line 41: the comparison of the two selections f1 = d_true[m], f2 = d[m]
\* under the negated m
NoiseComparisons(hits, f1, f2) ==
    IF ~Returned(f1) THEN f1
    ELSE IF ~Returned(f2) THEN f2
    ELSE Discriminations(hits, EqualElems(f1.value, f2.value))

\* lines 34 and 40: the comparison of the two selections t1 = d_true[m],
\* t2 = d[m], then m is rebound to its negation m2
SignalComparisons(d_true, d, m2, t1, t2) ==
    IF ~Returned(t1) THEN t1
    ELSE IF ~Returned(t2) THEN t2
    ELSE NoiseComparisons(EqualElems(t1.value, t2.value),
                          BoolIndex(Arr1(d_true), m2), BoolIndex(Arr1(d), m2))

\* lines 33-34: m = np.nonzero(d_true) indexes both directions
SelectSignal(d_true, d, m) ==
    SignalComparisons(d_true, d, LogicalNotOfTuple(m), TakeIdx(d_true, m), TakeIdx(d, m))

\* lines 29-33, given what the two change_direction calls gave
CompareDirections(r_true, r) ==
    IF ~Returned(r_true) THEN r_true
    ELSE IF ~Returned(r) THEN r
    ELSE SelectSignal(r_true.value.data, r.value.data, Nonzero(r_true.value.data))

signal_discriminations(x_true, x) ==
    CompareDirections(change_direction(x_true), change_direction(x))

IntsToF(s) == [i \in 1..Len(s) |-> Num(s[i])]
BoolsToF(s) == [i \in 1..Len(s) |-> Num(BoolToInt(s[i]))]

\* lines 81-82 and 88-89: a rate of 0 becomes the half unit
LiftZero(rate, half) == IF FEq(rate, Num(0)) THEN half ELSE rate

\* the saturation correction of lines 79-82 and 86-89
Unsaturate(rate, half) ==
    LiftZero(IF FEq(rate, Num(1)) THEN FSub(Num(1), half) ELSE rate, half)

\* lines 84-89: the false-alarm rate
FaRate(fa, cr) == Unsaturate(FDiv(fa, FAdd(fa, cr)), FDiv(Rat(1, 2), FAdd(fa, cr)))

\* lines 73-89.  Line 78 divides by hit + misses, the array: hit_rate is an
\* array, and `if hit_rate == 1` takes its truth value.  That raises for two
\* elements or more; for none it is False or raises, by the numpy release,
\* and where it is False hit_rate stays the empty array.
Rates(hit, miss, fa, cr, misses) ==
    IF Len(misses) > 1 THEN Raise("ValueError")
    ELSE IF Len(misses) = 0
    THEN IF EmptyTruthRaises THEN Raise("ValueError")
         ELSE Ok([hit_rate |-> Arr1(<<>>), fa_rate |-> FaRate(fa, cr)])
    ELSE Ok([hit_rate |-> Unsaturate(FDiv(hit, FAdd(hit, misses[1])),
                                     FDiv(Rat(1, 2), FAdd(hit, miss))),
             fa_rate |-> FaRate(fa, cr)])

\* lines 66-70: the means of the four arrays
MeanRates(sd) ==
    IF ~Returned(sd) THEN sd
    ELSE Rates(FMean(IntsToF(sd.value.hits.data)),
               FMean(BoolsToF(sd.value.misses.data)),
               FMean(IntsToF(sd.value.false_alarms.data)),
               FMean(BoolsToF(sd.value.correct_rejects.data)),
               BoolsToF(sd.value.misses.data))

\* The value of d_prime is Z(hit_rate) - Z(fa_rate); the model returns the two
\* arguments of Z, the inverse normal distribution function.
d_prime(x_true, x) == MeanRates(signal_discriminations(x_true, x))

\* Z(p) = norm.ppf(p) is a finite number exactly for 0 < p < 1
ZFinite(p) == FLt(Num(0), p) /\ FLt(p, Num(1))

(***************************************************************************)
(* Utilities                                                               *)
(***************************************************************************)
\* np.nanmin and np.nanmax of a non-empty array: the extreme of the entries
\* that are not not-a-number, and not-a-number when there is none
NotNaNs(s) == {s[i] : i \in {j \in 1..Len(s) : ~IsNaN(s[j])}}
\* the least and the greatest of a set of floats; nan for the empty set
MinOf(S) == IF S = {} THEN NaN ELSE CHOOSE v \in S : \A w \in S : FLe(v, w)
MaxOf(S) == IF S = {} THEN NaN ELSE CHOOSE v \in S : \A w \in S : FLe(w, v)
NanMin(s) == MinOf(NotNaNs(s))
NanMax(s) == MaxOf(NotNaNs(s))

\* (s - lo) / (hi - lo), elementwise
Rescale(s, lo, hi) == [i \in 1..Len(s) |-> FDiv(FSub(s[i], lo), FSub(hi, lo))]

\* x is a 1-D array.  Line 97 names np.float: where numpy has no such name
\* the call raises before anything is computed.  Where it has, astype copies
\* x into a new float array, and the reductions raise on an empty array.
normalize(x) ==
    IF ~HasNpFloat THEN Raise("AttributeError")
    ELSE IF Len(x.data) = 0 THEN Raise("ValueError")
    ELSE Ok(Arr1(Rescale(x.data, NanMin(x.data), NanMax(x.data))))

(***************************************************************************)
(* DiscreteInformation                                                     *)
(***************************************************************************)
\* log10 of 1..12 in thousandths
Log10Milli(i) ==
    CASE i = 1 -> 0
      [] i = 2 -> 301
      [] i = 3 -> 477
      [] i = 4 -> 602
      [] i = 5 -> 699
      [] i = 6 -> 778
      [] i = 7 -> 845
      [] i = 8 -> 903
      [] i = 9 -> 954
      [] i = 10 -> 1000
      [] i = 11 -> 1041
      [] i = 12 -> 1079

RECURSIVE IsPowerOfTwo(_)
IsPowerOfTwo(d) == d = 1 \/ (d % 2 = 0 /\ IsPowerOfTwo(d \div 2))

\* an argument of the logarithm that is not a double: a positive fraction
\* whose denominator is not a power of two.  np.log10 receives it rounded.
NotADouble(a) == a.k = "fin" /\ a.n > 0 /\ ~IsPowerOfTwo(a.d)

\* where the library's log10 of such an argument falls, in units of the last
\* place: below the table's value, on it, or above it.  The side is the
\* library's, argument by argument: glibc is below at 1/3, on it at 1/6 and
\* above at 1/5.
Log10Sides == {-1, 0, 1}

\* logfn, the logarithm a call is given, is np.log10 of some C library: the
\* side of each of the arguments the call can pass it
LogFns(arguments) == [arguments -> Log10Sides]

\* the distance of logfn(a) from the table's value
Log10Error(logfn, a) == IF a \in DOMAIN logfn THEN logfn[a] ELSE 0

\* logfn(a)
FLog10(logfn, a) ==
    CASE IsNaN(a) -> NaN
      [] IsZero(a) -> NInf
      [] SignBit(a) < 0 -> NaN
      [] IsInf(a) -> PInf
      [] OTHER -> Rat(Log10Milli(a.n) - Log10Milli(a.d) + Log10Error(logfn, a), 1000)

\* the range np.histogram bins over, for data of extremes lo and hi: the
\* observed range, widened by a half on both sides when it is empty
Widen(lo, hi) ==
    IF lo = hi THEN <<FSub(lo, Rat(1, 2)), FAdd(hi, Rat(1, 2))>> ELSE <<lo, hi>>

\* (0, 1) for no data
HistRange(a) ==
    IF Len(a) = 0 THEN <<Num(0), Num(1)>> ELSE Widen(NanMin(a), NanMax(a))

\* the last bin holds its right edge
ClipBin(i, m) == IF i = m THEN m - 1 ELSE i

\* the integer part of a float that is finite and not negative
Floor(f) == f.n \div f.d

\* the (0-based) bin of v among m equal-width bins of [first, last]
BinOf(v, first, last, m) ==
    ClipBin(Floor(FMul(FDiv(FSub(v, first), FSub(last, first)), Num(m))), m)

\* the bin of each entry of a, for m bins of the range r
BinsOf(a, r, m) == [i \in 1..Len(a) |-> BinOf(a[i], r[1], r[2], m)]

\* the number of entries in each of the m bins
CountBins(bins, m) == [j \in 1..m |-> Cardinality({i \in 1..Len(bins) : bins[i] = j - 1})]

\* np.histogram(a, bins=m)[0] for finite data a
Histogram(a, m) == CountBins(BinsOf(a, HistRange(a), m), m)

RECURSIVE IntSum(_)
IntSum(s) == IF Len(s) = 0 THEN 0 ELSE s[1] + IntSum(Tail(s))

\* x[np.isfinite(x)], x a 1-D array
FiniteOf(x) == SelectSeq(x.data, IsFinite)

\* the mutant of C6: the counts are divided by len(x), not by their sum
discrete_dist_over_len(x, m) ==
    Arr1([j \in 1..m |-> FDiv(Num(Histogram(FiniteOf(x), m)[j]), Num(Len(x.data)))])

\* counts / counts.sum()
Proportions(counts) ==
    [j \in 1..Len(counts) |-> FDiv(Num(counts[j]), Num(IntSum(counts)))]

discrete_dist(x, m) == Arr1(Proportions(Histogram(FiniteOf(x), m)))

\* line 150: dist[np.nonzero(dist)[0]]
IsNonzero(a) == ~IsZero(a)
DropZeros(dist) == SelectSeq(dist, IsNonzero)

\* line 151: -np.sum(dist * logfn(dist))
EntropyOf(dist, logfn) ==
    FNeg(FSum([j \in 1..Len(dist) |-> FMul(dist[j], FLog10(logfn, dist[j]))]))

\* lines 153-154: h / logfn(m) when normalize is set
OverLogBins(h, m, logfn, normalize_flag) ==
    IF normalize_flag THEN FDiv(h, FLog10(logfn, Num(m))) ELSE h

\* the mutant of C7: the empty bins are not dropped
EntropyOfDistKeepingZeros(dist, m, logfn, normalize_flag) ==
    OverLogBins(EntropyOf(dist, logfn), m, logfn, normalize_flag)

\* lines 150-154, for the dist of line 149
EntropyOfDist(dist, m, logfn, normalize_flag) ==
    OverLogBins(EntropyOf(DropZeros(dist), logfn), m, logfn, normalize_flag)

discrete_entropy(x, m, logfn, normalize_flag) ==
    EntropyOfDist(discrete_dist(x, m).data, m, logfn, normalize_flag)

\* the entries of dist that are not doubles: the arguments of logfn that it
\* receives rounded
LogArgs(dist) == {p \in {dist[j] : j \in 1..Len(dist)} : NotADouble(p)}

\* a / np.sqrt(p).  The root of a positive number is not computed: the
\* quotient is the pair (a, p), and two quotients are the same number when
\* their pairs are.
DivSqrt(a, p) ==
    CASE IsNaN(a) \/ IsNaN(p) -> NaN
      [] IsZero(p) \/ IsInf(p) -> IF SignBit(p) < 0 /\ ~IsZero(p) THEN NaN ELSE FDiv(a, p)
      [] SignBit(p) < 0 -> NaN
      [] IsZero(a) \/ IsInf(a) -> a
      [] OTHER -> [k |-> "div_sqrt", n |-> a.n, d |-> a.d, rad |-> p]

\* np.concatenate([x, y]) of two 1-D arrays
Concatenate(x, y) == Arr1(x.data \o y.data)

\* lines 189-190: mi_xy / np.sqrt(h_x * h_y) when normalize is set
OverRootOfProduct(mi_xy, h_x, h_y, normalize_flag) ==
    IF normalize_flag THEN DivSqrt(mi_xy, FMul(h_x, h_y)) ELSE mi_xy

\* line 187: h_x + h_y - h_xy
SumMinusJoint(h_x, h_y, h_xy, normalize_flag) ==
    OverRootOfProduct(FSub(FAdd(h_x, h_y), h_xy), h_x, h_y, normalize_flag)

\* the mutant of C8: the joint term is taken over x alone
MutualInformationOfDistsJointOfX(dist_x, dist_y, dist_xy, m, logfn, normalize_flag) ==
    SumMinusJoint(EntropyOfDist(dist_x, m, logfn, TRUE), EntropyOfDist(dist_y, m, logfn, TRUE),
                  EntropyOfDist(dist_x, m, logfn, TRUE), normalize_flag)

\* lines 182-190, for the dist of x, of y and of np.concatenate([x, y]); the
\* three entropies are taken with discrete_entropy's default normalize=True
MutualInformationOfDists(dist_x, dist_y, dist_xy, m, logfn, normalize_flag) ==
    SumMinusJoint(EntropyOfDist(dist_x, m, logfn, TRUE), EntropyOfDist(dist_y, m, logfn, TRUE),
                  EntropyOfDist(dist_xy, m, logfn, TRUE), normalize_flag)

discrete_mutual_information(x, y, m, logfn, normalize_flag) ==
    MutualInformationOfDists(discrete_dist(x, m).data, discrete_dist(y, m).data,
                             discrete_dist(Concatenate(x, y), m).data, m, logfn, normalize_flag)

(***************************************************************************)
(* ContinuousInformation                                                   *)
(*                                                                         *)
(* A multivariate sample is a 2-D array: a sequence of n rows of d         *)
(* integers.  A distance is held as its square, an integer: the square     *)
(* root is increasing, so the order of the distances is the order of       *)
(* their squares.                                                          *)
(***************************************************************************)
RECURSIVE SqDistFrom(_, _, _)
SqDistFrom(a, b, j) ==
    IF j > Len(a) THEN 0
    ELSE (a[j] - b[j]) * (a[j] - b[j]) + SqDistFrom(a, b, j + 1)

\* the squared Euclidean distance of two rows
SqDist(a, b) == SqDistFrom(a, b, 1)

\* s with v inserted before the first larger element (s ascending)
RECURSIVE Insert(_, _)
Insert(s, v) ==
    IF Len(s) = 0 THEN <<v>>
    ELSE IF v < s[1] THEN <<v>> \o s
    ELSE <<s[1]>> \o Insert(Tail(s), v)

RECURSIVE SortUpTo(_, _)
SortUpTo(s, i) == IF i = 0 THEN <<>> ELSE Insert(SortUpTo(s, i - 1), s[i])

\* s in ascending order
Sort(s) == SortUpTo(s, Len(s))

\* NearestNeighbors(n_neighbors).fit(X).kneighbors(X)[0]: for each row of X
\* the distances to its n_neighbors nearest rows of X, the row itself among
\* them, in ascending order; ValueError when X has fewer rows than that
kneighbors(X, n_neighbors) ==
    IF n_neighbors > Len(X.data) THEN Raise("ValueError")
    ELSE Ok([i \in 1..Len(X.data) |->
                SubSeq(Sort([j \in 1..Len(X.data) |-> SqDist(X.data[i], X.data[j])]),
                       1, n_neighbors)])

\* line 206: d[:, -1], the last column
LastColumn(r) ==
    IF ~Returned(r) THEN r
    ELSE Ok(Arr1([i \in 1..Len(r.value) |-> r.value[i][Len(r.value[i])]]))

\* the mutant of C9: k neighbours are asked for, so the row itself is counted
nearest_distances_counting_self(X, k) == LastColumn(kneighbors(X, k))

nearest_distances(X, k) == LastColumn(kneighbors(X, k + 1))

\* lines 253-263, given r = nearest_distances(X, k)
EntropyTerms(r, X, k) ==
    IF ~Returned(r) THEN r
    ELSE Ok([r |-> r.value.data, n |-> Len(X.data), d |-> Len(X.data[1]), k |-> k])

\* The value of continuous_entropy is
\*     d * mean(log(r + eps)) + log(volume_unit_ball(d)) + psi(n) - psi(k);
\* the model returns what the formula is applied to: r, n, d and k.
continuous_entropy(X, k) == EntropyTerms(nearest_distances(X, k), X, k)

\* np.hstack of 2-D arrays: the rows side by side; ValueError when the
\* arrays differ in their number of rows
HStack(variables) ==
    IF \E i \in 1..Len(variables) : Len(variables[i].data) # Len(variables[1].data)
    THEN Raise("ValueError")
    ELSE LET RECURSIVE Row(_, _)
             Row(r, i) ==
                 IF i > Len(variables) THEN <<>>
                 ELSE variables[i].data[r] \o Row(r, i + 1)
         IN  Ok(Arr2([r \in 1..Len(variables[1].data) |-> Row(r, 1)]))

\* line 290 calls entropy, a name the module neither defines nor imports
entropy(X, k) == Raise("NameError")

\* the calls made so far: np.hstack, then n calls of entropy
Steps(n) == <<"hstack">> \o [j \in 1..n |-> "entropy"]

\* the first entropy call that raised
FirstRaised(terms) ==
    CHOOSE i \in 1..Len(terms) :
        /\ ~Returned(terms[i])
        /\ \A j \in 1..(i - 1) : Returned(terms[j])

\* line 290: the sum of the terms minus the joint term
SumOfTermsMinusJoint(terms, joint) ==
    IF \E i \in 1..Len(terms) : ~Returned(terms[i])
    THEN [raised |-> terms[FirstRaised(terms)].raised,
          steps |-> Steps(FirstRaised(terms) - 1)]
    ELSE IF ~Returned(joint)
    THEN [raised |-> joint.raised, steps |-> Steps(Len(terms))]
    ELSE [raised |-> "none", steps |-> Steps(Len(terms) + 1),
          value |-> [plus |-> [i \in 1..Len(terms) |-> terms[i].value],
                     minus |-> joint.value]]

\* line 290, given all_vars = np.hstack(variables)
EntropiesOf(variables, all_vars, k) ==
    IF ~Returned(all_vars) THEN [raised |-> all_vars.raised, steps |-> <<>>]
    ELSE SumOfTermsMinusJoint([i \in 1..Len(variables) |-> entropy(variables[i], k)],
                              entropy(all_vars.value, k))

\* lines 289-290; steps lists what the call computed before it ended
MutualInformationOf(variables, k) == EntropiesOf(variables, HStack(variables), k)

\* the mutant of C5: the guard is off by one and lets a single variable through
continuous_mutual_information_one_variable(variables, k) ==
    IF Len(variables) < 1 THEN [raised |-> "AttributeError", steps |-> <<>>]
    ELSE MutualInformationOf(variables, k)

continuous_mutual_information(variables, k) ==
    IF Len(variables) < 2 THEN [raised |-> "AttributeError", steps |-> <<>>]
    ELSE MutualInformationOf(variables, k)

(***************************************************************************)
(* Inputs                                                                  *)
(***************************************************************************)
SeriesVals == {NZero, Num(0), Num(1), Num(2)}
\* one-dimensional series
Series == {Arr1(s) : s \in SeqsUpTo(SeriesVals, MaxLen)}
\* arrays that are not one-dimensional: one row of two entries, and a 2 x 2
Matrices ==
    {Arr2(<<r>>) : r \in [1..2 -> {Num(0), Num(1)}]}
        \cup {Arr2(<<<<Num(0), Num(1)>>, <<Num(1), Num(1)>>>>)}
SignalInputs == Series \cup Matrices

\* series that may hold values that are not finite
FloatVals == {Num(0), Num(1), Num(3), NaN, PInf}
FloatSeries == {Arr1(s) : s \in SeqsUpTo(FloatVals, MaxLen)}
\* the series of a mutual-information call: over two values, and one without a
\* finite entry
PairVals == {Num(0), Num(1)}
PairSeries == {Arr1(s) : s \in SeqsUpTo(PairVals, MaxPairLen)} \cup {Arr1(<<NaN>>)}
BinCounts == 1..MaxBins

\* multivariate samples: 1 to MaxRows rows of one feature, or of two
Points1 == {<<0>>, <<1>>, <<2>>, <<4>>}
Points2 == {<<0, 0>>, <<1, 0>>, <<1, 2>>}
Samples ==
    {Arr2(rows) : rows \in UNION {[1..r -> Points1] \cup [1..r -> Points2] : r \in 1..MaxRows}}
NeighborCounts == 1..MaxRows
\* the variables of a mutual-information call: one-feature samples
CmiSamples == {Arr2(rows) : rows \in UNION {[1..r -> {<<0>>, <<1>>}] : r \in 1..MaxCmiRows}}
CmiVariables == SeqsUpTo(CmiSamples, MaxVars)
CmiNeighborCounts == 1..MaxCmiRows

(***************************************************************************)
(* The calls                                                               *)
(***************************************************************************)
Idle ==
    /\ fn = "none"
    /\ args = <<>>
    /\ out = Raise("none")

\* the build is any one, and stays
Init ==
    /\ Idle
    /\ numpy \in NumpyReleases

\* the caller has taken the result: the module keeps nothing between calls
Return ==
    /\ fn # "none"
    /\ fn' = "none"
    /\ args' = <<>>
    /\ out' = Raise("none")
    /\ UNCHANGED numpy

CallChangeDirection ==
    /\ fn = "none"
    /\ \E x \in SignalInputs :
        /\ fn' = "change_direction"
        /\ args' = [x |-> x]
        /\ out' = change_direction(x)
    /\ UNCHANGED numpy

CallSignalDiscriminations ==
    /\ fn = "none"
    /\ \E x_true \in SignalInputs, x \in SignalInputs :
        /\ fn' = "signal_discriminations"
        /\ args' = [x_true |-> x_true, x |-> x]
        /\ out' = signal_discriminations(x_true, x)
    /\ UNCHANGED numpy

CallDPrime ==
    /\ fn = "none"
    /\ \E x_true \in SignalInputs, x \in SignalInputs :
        /\ fn' = "d_prime"
        /\ args' = [x_true |-> x_true, x |-> x]
        /\ out' = d_prime(x_true, x)
    /\ UNCHANGED numpy

NextSignal == CallChangeDirection \/ CallSignalDiscriminations \/ CallDPrime \/ Return

SpecSignal == Init /\ [][NextSignal]_vars

CallNormalize ==
    /\ fn = "none"
    /\ \E x \in FloatSeries :
        /\ fn' = "normalize"
        /\ args' = [x |-> x]
        /\ out' = normalize(x)
    /\ UNCHANGED numpy

CallDiscreteDist ==
    /\ fn = "none"
    /\ \E x \in FloatSeries, m \in BinCounts :
        /\ fn' = "discrete_dist"
        /\ args' = [x |-> x, m |-> m]
        /\ out' = Ok(discrete_dist(x, m))
    /\ UNCHANGED numpy

\* the calls of discrete_entropy on x and m, whose dist (line 149) is dist:
\* either normalize flag, and the logarithm of any C library
DiscreteEntropyCalls(x, m, dist) ==
    \E nf \in BOOLEAN, logfn \in LogFns(LogArgs(dist)) :
        /\ fn' = "discrete_entropy"
        /\ args' = [x |-> x, m |-> m, logfn |-> logfn, normalize |-> nf]
        /\ out' = Ok(EntropyOfDist(dist, m, logfn, nf))

CallDiscreteEntropy ==
    /\ fn = "none"
    /\ \E x \in FloatSeries, m \in BinCounts :
        DiscreteEntropyCalls(x, m, discrete_dist(x, m).data)
    /\ UNCHANGED numpy

\* the calls of discrete_mutual_information on x, y and m, whose three
\* entropies are taken from dist_x, dist_y and dist_xy
DiscreteMutualInformationCalls(x, y, m, dist_x, dist_y, dist_xy) ==
    \E nf \in BOOLEAN,
       logfn \in LogFns(LogArgs(dist_x) \cup LogArgs(dist_y) \cup LogArgs(dist_xy)) :
        /\ fn' = "discrete_mutual_information"
        /\ args' = [x |-> x, y |-> y, m |-> m, logfn |-> logfn, normalize |-> nf]
        /\ out' = Ok(MutualInformationOfDists(dist_x, dist_y, dist_xy, m, logfn, nf))

CallDiscreteMutualInformation ==
    /\ fn = "none"
    /\ \E x \in PairSeries, y \in PairSeries, m \in BinCounts :
        DiscreteMutualInformationCalls(x, y, m, discrete_dist(x, m).data, discrete_dist(y, m).data,
                                       discrete_dist(Concatenate(x, y), m).data)
    /\ UNCHANGED numpy

NextDiscrete ==
    CallDiscreteDist \/ CallDiscreteEntropy \/ CallDiscreteMutualInformation \/ Return

SpecDiscrete == Init /\ [][NextDiscrete]_vars

NextNormalize == CallNormalize \/ Return

SpecNormalize == Init /\ [][NextNormalize]_vars

CallNearestDistances ==
    /\ fn = "none"
    /\ \E X \in Samples, k \in NeighborCounts :
        /\ fn' = "nearest_distances"
        /\ args' = [X |-> X, k |-> k]
        /\ out' = nearest_distances(X, k)
    /\ UNCHANGED numpy

CallContinuousEntropy ==
    /\ fn = "none"
    /\ \E X \in Samples, k \in NeighborCounts :
        /\ fn' = "continuous_entropy"
        /\ args' = [X |-> X, k |-> k]
        /\ out' = continuous_entropy(X, k)
    /\ UNCHANGED numpy

CallContinuousMutualInformation ==
    /\ fn = "none"
    /\ \E variables \in CmiVariables, k \in CmiNeighborCounts :
        /\ fn' = "continuous_mutual_information"
        /\ args' = [variables |-> variables, k |-> k]
        /\ out' = continuous_mutual_information(variables, k)
    /\ UNCHANGED numpy

NextContinuous ==
    CallNearestDistances \/ CallContinuousEntropy \/ CallContinuousMutualInformation \/ Return

SpecContinuous == Init /\ [][NextContinuous]_vars

\* the calls that can fail on the shape or the number of their arguments
NextFailFast ==
    \/ CallChangeDirection
    \/ CallSignalDiscriminations
    \/ CallDPrime
    \/ CallContinuousMutualInformation
    \/ Return

SpecFailFast == Init /\ [][NextFailFast]_vars

Next == NextSignal \/ NextDiscrete \/ NextNormalize \/ NextContinuous

Spec == Init /\ [][Next]_vars

(***************************************************************************)
(* SignalDiscriminator: the claims                                         *)
(***************************************************************************)
\* a call of f on two one-dimensional series of the same length
PairCall(f) ==
    /\ fn = f
    /\ args.x_true.ndim = 1
    /\ args.x.ndim = 1
    /\ Len(args.x_true.data) = Len(args.x.data)

\* the direction sequences of the reference and of the test series
RefDir == change_direction(args.x_true).value.data
TestDir == change_direction(args.x).value.data
\* the positions of the hit/miss group and of the false-alarm/correct-reject group
SignalIdx == {i \in 1..Len(RefDir) : ~IsZero(RefDir[i])}
NoiseIdx == {i \in 1..Len(RefDir) : IsZero(RefDir[i])}

\* C1: for two 1-D series of the same length >= 2, signal_discriminations
\* returns, hits and misses have one entry per nonzero reference direction,
\* false alarms and correct rejects one per zero reference direction, the two
\* groups hold len(reference) - 1 entries together, and every entry is
\* exactly one of its pair (hit xor miss, false alarm xor correct reject).
C1_PartitionsEveryIndex ==
    (PairCall("signal_discriminations") /\ Len(args.x_true.data) >= 2) =>
        /\ Returned(out)
        /\ Len(out.value.hits.data) = Cardinality(SignalIdx)
        /\ Len(out.value.misses.data) = Cardinality(SignalIdx)
        /\ Len(out.value.false_alarms.data) = Cardinality(NoiseIdx)
        /\ Len(out.value.correct_rejects.data) = Cardinality(NoiseIdx)
        /\ Len(out.value.hits.data) + Len(out.value.false_alarms.data) = Len(args.x_true.data) - 1
        /\ \A i \in 1..Len(out.value.hits.data) :
              (out.value.hits.data[i] = 1) # out.value.misses.data[i]
        /\ \A i \in 1..Len(out.value.false_alarms.data) :
              (out.value.false_alarms.data[i] = 1) # out.value.correct_rejects.data[i]

\* both groups of the reference hold at least one comparison
BothGroups == SignalIdx # {} /\ NoiseIdx # {}

\* C2: for two 1-D series of the same length whose reference direction has a
\* nonzero and a zero entry, d_prime returns a finite number: both arguments
\* of the inverse-normal transform are strictly between 0 and 1.
C2_DPrimeFinite ==
    (PairCall("d_prime") /\ BothGroups) =>
        /\ Returned(out)
        /\ ZFinite(out.value.hit_rate)
        /\ ZFinite(out.value.fa_rate)

\* the rate count/total with the half-unit 0.5/total in place of 0 and of 1
CountRate(count, total) ==
    IF count = total THEN FSub(Num(1), Rat(1, 2 * total))
    ELSE IF count = 0 THEN Rat(1, 2 * total)
    ELSE Rat(count, total)

\* C3: in d_prime the hit rate is (hits)/N_h and the false-alarm rate is
\* (false alarms)/N_f, N_h and N_f the sizes of the two groups, and a rate of
\* 1 is replaced by 1 - 0.5/N, a rate of 0 by 0.5/N, N the group's size.
C3_HalfUnitFromGroupCount ==
    (PairCall("d_prime") /\ BothGroups) =>
        /\ Returned(out)
        /\ out.value.hit_rate =
              CountRate(Cardinality({i \in SignalIdx : FEq(RefDir[i], TestDir[i])}),
                        Cardinality(SignalIdx))
        /\ out.value.fa_rate =
              CountRate(Cardinality({i \in NoiseIdx : FEq(RefDir[i], TestDir[i])}),
                        Cardinality(NoiseIdx))

(***************************************************************************)
(* ContinuousInformation: the claims                                       *)
(***************************************************************************)
\* C4: for 2 or more samples with the same number of rows and k >= 1,
\* continuous_mutual_information returns the sum of continuous_entropy of
\* each variable minus continuous_entropy of their horizontal concatenation.
C4_SumOfEntropiesMinusJoint ==
    (/\ fn = "continuous_mutual_information"
     /\ Len(args.variables) >= 2
     /\ Returned(HStack(args.variables))
     /\ args.k < Len(args.variables[1].data)) =>
        /\ Returned(out)
        /\ out.value =
              [plus |-> [i \in 1..Len(args.variables) |->
                            continuous_entropy(args.variables[i], args.k).value],
               minus |-> continuous_entropy(HStack(args.variables).value, args.k).value]

\* C5: a call fails before it produces anything when its arguments have the
\* wrong shape or number: change_direction, and signal_discriminations and
\* d_prime through it, raise ValueError on an array that is not 1-D and
\* return no value; continuous_mutual_information raises on fewer than 2
\* variables with no concatenation and no entropy computed.
C5_FailsBeforeAnyResult ==
    /\ (fn = "change_direction" /\ args.x.ndim # 1) => out = Raise("ValueError")
    /\ (fn \in {"signal_discriminations", "d_prime"}
            /\ (args.x_true.ndim # 1 \/ args.x.ndim # 1)) => out = Raise("ValueError")
    /\ (fn = "continuous_mutual_information" /\ Len(args.variables) < 2) =>
            out = [raised |-> "AttributeError", steps |-> <<>>]

\* d_prime has failed on a test series that is not 1-D, after a 1-D reference
C5_Witness ==
    /\ fn = "d_prime"
    /\ args.x_true.ndim = 1
    /\ args.x.ndim = 2
    /\ out = Raise("ValueError")

\* the number of other rows strictly nearer to row i than v, and not farther
NearerOthers(X, i, v) ==
    Cardinality({j \in 1..Len(X.data) : j # i /\ SqDist(X.data[i], X.data[j]) < v})
NotFartherOthers(X, i, v) ==
    Cardinality({j \in 1..Len(X.data) : j # i /\ SqDist(X.data[i], X.data[j]) <= v})

\* v is the k-th smallest of the distances from row i to the other rows
IsKthNearestOther(X, i, k, v) ==
    /\ \E j \in 1..Len(X.data) : j # i /\ SqDist(X.data[i], X.data[j]) = v
    /\ NearerOthers(X, i, v) < k
    /\ NotFartherOthers(X, i, v) >= k

\* C9: for a sample of n rows and 1 <= k <= n - 1, nearest_distances returns
\* for each row the k-th smallest distance from it to the other n - 1 rows,
\* coincident rows included.
C9_KthNearestExcludingSelf ==
    (fn = "nearest_distances" /\ args.k <= Len(args.X.data) - 1) =>
        /\ Returned(out)
        /\ Len(out.value.data) = Len(args.X.data)
        /\ \A i \in 1..Len(args.X.data) :
              IsKthNearestOther(args.X, i, args.k, out.value.data[i])

\* a sample with two coincident rows and k = 2: one row is at distance 0 of
\* its nearest other row, and its second-nearest is farther
C9_Witness ==
    /\ fn = "nearest_distances"
    /\ args.k = 2
    /\ Len(args.X.data) = 3
    /\ args.X.data[1] = args.X.data[2]
    /\ args.X.data[3] # args.X.data[1]
    /\ Returned(out)
    /\ out.value.data[1] > 0
    /\ NearerOthers(args.X, 1, out.value.data[1]) = 1

(***************************************************************************)
(* DiscreteInformation: the claims                                         *)
(***************************************************************************)
\* every finite entry is in one bin, the probabilities are not negative and
\* sum to 1
IsDistribution ==
    /\ IntSum(Histogram(FiniteOf(args.x), args.m)) = Len(FiniteOf(args.x))
    /\ Len(out.value.data) = args.m
    /\ \A j \in 1..args.m : FLe(Num(0), out.value.data[j])
    /\ FEq(FSum(out.value.data), Num(1))

\* C6 as stated: for every m >= 1 and every x, an x with no finite entry
\* included, discrete_dist puts each finite entry in exactly one of m bins
\* and returns probabilities >= 0 that sum to 1.
C6_SumsToOneForAllX == (fn = "discrete_dist") => IsDistribution

\* C6 as amended: the same for every x that holds at least one finite entry;
\* with no finite entry every probability is not-a-number.
C6_SumsToOneGivenFiniteEntry ==
    (fn = "discrete_dist") =>
        IF Len(FiniteOf(args.x)) >= 1 THEN IsDistribution
        ELSE \A j \in 1..args.m : IsNaN(out.value.data[j])

\* a series with an entry that is dropped and two finite entries in different
\* bins, each of probability 1/2
C6_Witness ==
    /\ fn = "discrete_dist"
    /\ Len(FiniteOf(args.x)) = 2
    /\ Len(args.x.data) = 3
    /\ args.m = 3
    /\ out.value.data[1] = Rat(1, 2)
    /\ out.value.data[3] = Rat(1, 2)

InUnitInterval(h) == FLe(Num(0), h) /\ FLe(h, Num(1))

\* C7 as stated: for all m >= 1 and all x, m = 1 included, the normalized
\* entropy is a number h with 0 <= h <= 1.
C7_NormalizedEntropyInUnitInterval ==
    (fn = "discrete_entropy" /\ args.normalize) => InUnitInterval(out.value)

\* the finite entries of x fall evenly over all the m bins
EvenlySpread(x, m) ==
    \A j \in 1..m : discrete_dist(x, m).data[j] = Rat(1, m)

\* h is at most 1, or above it by no more than the rounding of the logarithm:
\* h * log(m) is at most one unit of the last place above log(m)
AtMostOneUpToRounding(h, m) ==
    FLe(FMul(h, FLog10(args.logfn, Num(m))), FAdd(FLog10(args.logfn, Num(m)), Rat(1, 1000)))

\* C7 as amended: for all m >= 2 and all x with at least one finite entry the
\* normalized entropy is a number h with 0 <= h, and h <= 1 up to rounding:
\* h is above 1 only where the entries fall evenly over all the bins, and
\* then by a rounding error; for m = 1, and for an x with no finite entry, it
\* is not-a-number.
C7_NormalizedEntropyInUnitIntervalUpToRounding ==
    (fn = "discrete_entropy" /\ args.normalize) =>
        IF args.m >= 2 /\ Len(FiniteOf(args.x)) >= 1
        THEN /\ FLe(Num(0), out.value)
             /\ AtMostOneUpToRounding(out.value, args.m)
             /\ FLt(Num(1), out.value) => EvenlySpread(args.x, args.m)
        ELSE IsNaN(out.value)

\* three entries spread evenly over three bins, and a logarithm that falls
\* below the table's value at 1/3: the entropy is above 1
C7_Witness ==
    /\ fn = "discrete_entropy"
    /\ args.normalize
    /\ args.m = 3
    /\ EvenlySpread(args.x, args.m)
    /\ FLt(Num(1), out.value)

\* the same call with the two series exchanged
Swapped ==
    discrete_mutual_information(args.y, args.x, args.m, args.logfn, args.normalize)

\* C8 as stated: for all x, y, m and either normalize flag,
\* discrete_mutual_information(x, y, m) equals
\* discrete_mutual_information(y, x, m).
C8_SymmetricAsNumbers ==
    (fn = "discrete_mutual_information") => FEq(out.value, Swapped)

\* the same number, or not-a-number both
SameResult(a, b) == (IsNaN(a) /\ IsNaN(b)) \/ FEq(a, b)

\* C8 as amended: the two calls give the same result: the same number, or
\* not-a-number both; and the pooled bin counts are those of either order.
C8_SameResultInBothOrders ==
    (fn = "discrete_mutual_information") =>
        /\ SameResult(out.value, Swapped)
        /\ Histogram(FiniteOf(Concatenate(args.x, args.y)), args.m)
              = Histogram(FiniteOf(Concatenate(args.y, args.x)), args.m)

\* two series of different entropies whose mutual information is a number
\* other than 0
C8_Witness ==
    /\ fn = "discrete_mutual_information"
    /\ ~args.normalize
    /\ args.m = 3
    /\ Concatenate(args.x, args.y) # Concatenate(args.y, args.x)
    /\ ~FEq(discrete_entropy(args.x, args.m, args.logfn, TRUE),
            discrete_entropy(args.y, args.m, args.logfn, TRUE))
    /\ IsFinite(out.value)
    /\ ~IsZero(out.value)

(***************************************************************************)
(* Utilities: the claims                                                   *)
(***************************************************************************)
\* the entries of x are scaled onto [0, 1]: the minimum to 0, the maximum to 1,
\* the others in between
ScalesOntoUnitInterval ==
    LET x == args.x.data
        y == out.value.data
    IN  /\ Returned(out)
        /\ Len(y) = Len(x)
        /\ \A i \in 1..Len(x) :
              /\ FEq(x[i], NanMin(x)) => FEq(y[i], Num(0))
              /\ FEq(x[i], NanMax(x)) => FEq(y[i], Num(1))
              /\ (~IsNaN(x[i]) /\ ~FEq(x[i], NanMin(x)) /\ ~FEq(x[i], NanMax(x))) =>
                    /\ FEq(y[i], FDiv(FSub(x[i], NanMin(x)), FSub(NanMax(x), NanMin(x))))
                    /\ FLt(Num(0), y[i])
                    /\ FLt(y[i], Num(1))

\* all entries are the same number: no error, every entry not-a-number
EqualValuesGiveNaN ==
    LET x == args.x.data
    IN  (Len(x) >= 1 /\ \A i, j \in 1..Len(x) : FEq(x[i], x[j])) =>
            /\ Returned(out)
            /\ Len(out.value.data) = Len(x)
            /\ \A i \in 1..Len(x) : IsNaN(out.value.data[i])

\* x has a nonzero range
NonzeroRange == FLt(NanMin(args.x.data), NanMax(args.x.data))

\* C10, for any x whose entries that are not not-a-number are all finite
\* (an infinite entry makes the range infinite, and the quotient of the
\* maximum not-a-number): if max > min over those entries, normalize maps the
\* minimum to 0, the maximum to 1 and every other such entry to
\* (x_i - min)/(max - min), strictly between 0 and 1; when all values are
\* equal it does not raise and returns not-a-number entries.
C10_MinToZeroMaxToOne ==
    (fn = "normalize") =>
        /\ (/\ NonzeroRange
            /\ \A i \in 1..Len(args.x.data) :
                  IsNaN(args.x.data[i]) \/ IsFinite(args.x.data[i]))
                => ScalesOntoUnitInterval
        /\ EqualValuesGiveNaN

(***************************************************************************)
(* C11                                                                     *)
(***************************************************************************)
\* a call of change_direction on a 1-D series of at least one value, all finite
FiniteSeriesCall ==
    /\ fn = "change_direction"
    /\ args.x.ndim = 1
    /\ Len(args.x.data) >= 1
    /\ \A i \in 1..Len(args.x.data) : IsFinite(args.x.data[i])

\* e is the direction of the step from a to b: +1 up, -1 down, 0 level
IsDirectionOf(e, a, b) ==
    /\ FLt(a, b) => e = Num(1)
    /\ FLt(b, a) => e = Num(-1)
    /\ FEq(a, b) => FEq(e, Num(0))
    /\ FEq(e, Num(-1)) \/ FEq(e, Num(0)) \/ FEq(e, Num(1))

\* C11: for every 1-D series x of length n >= 1 with finite values,
\* change_direction(x) returns a 1-D sequence of length n - 1 whose i-th
\* element is the sign of x[i+1] - x[i]: +1 if x[i+1] > x[i], -1 if
\* x[i+1] < x[i], 0 if they are equal; every element is -1, 0 or +1.
C11_SignOfSuccessiveDifferences ==
    FiniteSeriesCall =>
        /\ Returned(out)
        /\ out.value.ndim = 1
        /\ Len(out.value.data) = Len(args.x.data) - 1
        /\ \A i \in 1..Len(out.value.data) :
              IsDirectionOf(out.value.data[i], args.x.data[i], args.x.data[i + 1])

\* a series of three values that goes down and then stays level
C11_Witness ==
    /\ FiniteSeriesCall
    /\ Len(args.x.data) = 3
    /\ FLt(args.x.data[2], args.x.data[1])
    /\ FEq(args.x.data[3], args.x.data[2])
    /\ Returned(out)
    /\ Len(out.value.data) = 2

====
